---- MODULE Spec2Model ----
(***************************************************************************)
(* Model of the register-map generators cpp_generator.py and               *)
(* golden_h_generator.py.  Both programs stream the same text file line by *)
(* line through parse_reg_map_file and then render the parsed registers.   *)
(* The model runs the two parsers side by side on the same input so that   *)
(* their results can be compared.                                          *)
(*                                                                         *)
(* Text is modelled as TLA+ strings handled character by character.        *)
(* Python integers are unbounded; an address, a base address and an offset *)
(* is modelled as a record [hi, lo] standing for hi * 4096 + lo with       *)
(* lo \in 0..4095, so that 0xFFFFF000 and addresses of 2^32 and more are   *)
(* representable.  Field reset values and composite reset values stay      *)
(* plain integers (the input alphabet keeps them far below 2^31).          *)
(***************************************************************************)
EXTENDS Integers, Sequences, FiniteSets, TLC

(***************************************************************************)
(* Bounds of the model.                                                    *)
(***************************************************************************)
MaxLines == 3

\* Python's None where a string is expected (no token contains a blank), and
\* where a number is expected (lo = -1 is outside the range of a number).
None == "<None >"

NoneNum == [hi |-> 0, lo |-> 0 - 1]

(***************************************************************************)
(* Characters.                                                             *)
(***************************************************************************)
Ch(s, i) == SubSeq(s, i, i)

DecDigits == {"0", "1", "2", "3", "4", "5", "6", "7", "8", "9"}

HexDigits == DecDigits \cup {"a", "b", "c", "d", "e", "f",
                             "A", "B", "C", "D", "E", "F"}

HexDigitVal(c) ==
    CASE c = "0" -> 0 [] c = "1" -> 1 [] c = "2" -> 2 [] c = "3" -> 3
      [] c = "4" -> 4 [] c = "5" -> 5 [] c = "6" -> 6 [] c = "7" -> 7
      [] c = "8" -> 8 [] c = "9" -> 9
      [] c \in {"a", "A"} -> 10 [] c \in {"b", "B"} -> 11
      [] c \in {"c", "C"} -> 12 [] c \in {"d", "D"} -> 13
      [] c \in {"e", "E"} -> 14 [] c \in {"f", "F"} -> 15

HexDigitChar(d) == Ch("0123456789abcdef", d + 1)

\* str.upper() on one character (the letters the input alphabet uses).
UpperChar(c) ==
    CASE c = "a" -> "A" [] c = "b" -> "B" [] c = "c" -> "C" [] c = "d" -> "D"
      [] c = "e" -> "E" [] c = "f" -> "F" [] c = "g" -> "G" [] c = "h" -> "H"
      [] c = "i" -> "I" [] c = "j" -> "J" [] c = "k" -> "K" [] c = "l" -> "L"
      [] c = "m" -> "M" [] c = "n" -> "N" [] c = "o" -> "O" [] c = "p" -> "P"
      [] c = "q" -> "Q" [] c = "r" -> "R" [] c = "s" -> "S" [] c = "t" -> "T"
      [] c = "u" -> "U" [] c = "v" -> "V" [] c = "w" -> "W" [] c = "x" -> "X"
      [] c = "y" -> "Y" [] c = "z" -> "Z" [] OTHER -> c

RECURSIVE upper(_)
upper(s) == IF s = "" THEN "" ELSE UpperChar(Ch(s, 1)) \o upper(Tail(s))

IsSpace(c) == c \in {" ", "\t"}

\* str.startswith
startswith(s, prefix) ==
    Len(s) >= Len(prefix) /\ SubSeq(s, 1, Len(prefix)) = prefix

(***************************************************************************)
(* line.split(): the maximal runs of non-blank characters, in order.       *)
(***************************************************************************)
RECURSIVE SplitFrom(_, _, _, _)
\* start is the index where the token being read began (0 between tokens)
SplitFrom(s, i, start, acc) ==
    IF i > Len(s)
    THEN IF start = 0 THEN acc ELSE Append(acc, SubSeq(s, start, Len(s)))
    ELSE IF IsSpace(Ch(s, i))
         THEN SplitFrom(s, i + 1, 0,
                        IF start = 0 THEN acc ELSE Append(acc, SubSeq(s, start, i - 1)))
         ELSE SplitFrom(s, i + 1, IF start = 0 THEN i ELSE start, acc)

split(s) == SplitFrom(s, 1, 0, <<>>)

(***************************************************************************)
(* Unbounded integers as hi * 4096 + lo.                                   *)
(***************************************************************************)
Limb == 16 * 16 * 16

Num(hi, lo) == [hi |-> hi, lo |-> lo]

Zero == Num(0, 0)

\* a - b
Sub(a, b) ==
    IF a.lo >= b.lo THEN Num(a.hi - b.hi, a.lo - b.lo)
                    ELSE Num(a.hi - b.hi - 1, a.lo + Limb - b.lo)

\* a < b
Less(a, b) == a.hi < b.hi \/ (a.hi = b.hi /\ a.lo < b.lo)

IsNegative(a) == a.hi < 0

\* -a
Neg(a) == IF a.lo = 0 THEN Num(-a.hi, 0) ELSE Num(-a.hi - 1, Limb - a.lo)

\* a // 2 (floor division, as Python's and, for a >= 0, as C++'s)
Half(a) == Num(a.hi \div 2, (a.lo \div 2) + (IF a.hi % 2 = 1 THEN Limb \div 2 ELSE 0))

RECURSIVE BitAnd(_, _)
BitAnd(x, y) ==
    IF x = 0 \/ y = 0 THEN 0
    ELSE (x % 2) * (y % 2) + 2 * BitAnd(x \div 2, y \div 2)

RECURSIVE BitOr(_, _)
BitOr(x, y) ==
    IF x = 0 THEN y
    ELSE IF y = 0 THEN x
    ELSE (IF x % 2 = 1 \/ y % 2 = 1 THEN 1 ELSE 0) + 2 * BitOr(x \div 2, y \div 2)

RECURSIVE Pow2(_)
Pow2(n) == IF n = 0 THEN 1 ELSE 2 * Pow2(n - 1)

\* x << n
ShiftLeft(x, n) == x * Pow2(n)

\* a & b for non-negative a, b
And(a, b) == Num(BitAnd(a.hi, b.hi), BitAnd(a.lo, b.lo))

(***************************************************************************)
(* int(s, 16): an optional 0x / 0X prefix followed by one or more hex      *)
(* digits; anything else raises ValueError.  (Signs, underscores and       *)
(* surrounding blanks, which int() also accepts, do not occur in the input *)
(* alphabet of the model.)  The result is [ok, val]; ok = FALSE stands for *)
(* the raised ValueError.                                                  *)
(***************************************************************************)
RECURSIVE HexAccum(_, _, _)
HexAccum(s, i, acc) ==
    IF i > Len(s) THEN acc
    ELSE HexAccum(s, i + 1,
                  Num(acc.hi * 16 + (acc.lo \div 256),
                      (acc.lo % 256) * 16 + HexDigitVal(Ch(s, i))))

int16(s) ==
    LET body == IF startswith(s, "0x") \/ startswith(s, "0X")
                THEN SubSeq(s, 3, Len(s)) ELSE s
    IN  IF body # "" /\ \A i \in 1..Len(body) : Ch(body, i) \in HexDigits
        THEN [ok |-> TRUE, val |-> HexAccum(body, 1, Zero)]
        ELSE [ok |-> FALSE, val |-> Zero]

\* a small non-negative Num as a plain integer
AsInt(n) == n.hi * Limb + n.lo

(***************************************************************************)
(* Hexadecimal formatting: format(n, 'x'), format(n, '0Wx') and hex(n).    *)
(***************************************************************************)
RECURSIVE HexOfNat(_)
HexOfNat(n) ==
    IF n < 16 THEN HexDigitChar(n) ELSE HexOfNat(n \div 16) \o HexDigitChar(n % 16)

HexOfInt(n) == IF n < 0 THEN "-" \o HexOfNat(-n) ELSE HexOfNat(n)

Hex3(lo) == HexDigitChar(lo \div 256) \o HexDigitChar((lo \div 16) % 16)
            \o HexDigitChar(lo % 16)

HexOfNum(a) ==
    LET m == IF IsNegative(a) THEN Neg(a) ELSE a
        digits == IF m.hi = 0 THEN HexOfNat(m.lo) ELSE HexOfNat(m.hi) \o Hex3(m.lo)
    IN  IF IsNegative(a) THEN "-" \o digits ELSE digits

RECURSIVE ZeroPad(_, _, _)
\* sign-aware zero padding of format spec '0Wx': the sign counts in the width
ZeroPad(sign, digits, width) ==
    IF Len(sign) + Len(digits) >= width THEN sign \o digits
    ELSE ZeroPad(sign, "0" \o digits, width)

FormatHex(text, width) ==
    IF startswith(text, "-") THEN ZeroPad("-", Tail(text), width)
                             ELSE ZeroPad("", text, width)


(***************************************************************************)
(* The namedtuples Field and Register.                                     *)
(***************************************************************************)
Field(name, position, reset_value) ==
    [name |-> name, position |-> position, reset_value |-> reset_value]

Register(name, offset, reset_value) ==
    [name |-> name, offset |-> offset, reset_value |-> reset_value]

(***************************************************************************)
(* Regular-expression helpers: \d+ is a maximal run of decimal digits.     *)
(***************************************************************************)
RECURSIVE DigitRunEnd(_, _)
\* index of the last character of the digit run that starts at i (i - 1 if
\* the character at i is not a digit)
DigitRunEnd(s, i) ==
    IF i <= Len(s) /\ Ch(s, i) \in DecDigits THEN DigitRunEnd(s, i + 1) ELSE i - 1

RECURSIVE DecVal(_, _, _)
\* int() of the decimal digits s[i..j]
DecVal(s, i, j) ==
    IF j < i THEN 0 ELSE DecVal(s, i, j - 1) * 10 + HexDigitVal(Ch(s, j))

\* r':(\d+)' matches at i
ColonDigitsAt(s, i) ==
    Ch(s, i) = ":" /\ DigitRunEnd(s, i + 1) >= i + 1

\* r'\[(\d+):(\d+)\]' matches at i
RangeAt(s, i) ==
    /\ Ch(s, i) = "["
    /\ DigitRunEnd(s, i + 1) >= i + 1
    /\ LET c == DigitRunEnd(s, i + 1) + 1
       IN  /\ c <= Len(s) /\ Ch(s, c) = ":"
           /\ DigitRunEnd(s, c + 1) >= c + 1
           /\ DigitRunEnd(s, c + 1) + 1 <= Len(s)
           /\ Ch(s, DigitRunEnd(s, c + 1) + 1) = "]"

\* r'\[(\d+)\]' matches at i
SingleAt(s, i) ==
    /\ Ch(s, i) = "["
    /\ DigitRunEnd(s, i + 1) >= i + 1
    /\ DigitRunEnd(s, i + 1) + 1 <= Len(s)
    /\ Ch(s, DigitRunEnd(s, i + 1) + 1) = "]"

Min(S) == CHOOSE x \in S : \A y \in S : x <= y

(***************************************************************************)
(* cpp_generator.parse_bit_position                                        *)
(***************************************************************************)
Cpp_parse_bit_position(pos_str) ==
    LET hits == {i \in 1..Len(pos_str) : ColonDigitsAt(pos_str, i)}
    IN  IF hits # {}
        THEN LET i == Min(hits)
             IN  DecVal(pos_str, i + 1, DigitRunEnd(pos_str, i + 1))
        ELSE 0

(***************************************************************************)
(* golden_h_generator.parse_bit_position                                   *)
(***************************************************************************)
Golden_parse_bit_position(pos_str) ==
    LET ranges  == {i \in 1..Len(pos_str) : RangeAt(pos_str, i)}
        singles == {i \in 1..Len(pos_str) : SingleAt(pos_str, i)}
    IN  IF ranges # {}
        THEN LET i == Min(ranges)
                 c == DigitRunEnd(pos_str, i + 1) + 1
             IN  DecVal(pos_str, c + 1, DigitRunEnd(pos_str, c + 1))
        ELSE IF singles # {}
        THEN LET i == Min(singles)
             IN  DecVal(pos_str, i + 1, DigitRunEnd(pos_str, i + 1))
        ELSE 0

(***************************************************************************)
(* calculate_reset_value, one per generator: the loop over the fields.     *)
(***************************************************************************)
RECURSIVE Cpp_reset_loop(_, _, _)
Cpp_reset_loop(fields, i, total_reset) ==
    IF i > Len(fields) THEN total_reset
    ELSE Cpp_reset_loop(fields, i + 1,
            BitOr(total_reset,
                  ShiftLeft(fields[i].reset_value,
                            Cpp_parse_bit_position(fields[i].position))))

Cpp_calculate_reset_value(fields) == Cpp_reset_loop(fields, 1, 0)

RECURSIVE Golden_reset_loop(_, _, _)
Golden_reset_loop(fields, i, total_reset) ==
    IF i > Len(fields) THEN total_reset
    ELSE Golden_reset_loop(fields, i + 1,
            BitOr(total_reset,
                  ShiftLeft(fields[i].reset_value,
                            Golden_parse_bit_position(fields[i].position))))

Golden_calculate_reset_value(fields) == Golden_reset_loop(fields, 1, 0)

(***************************************************************************)
(* The input alphabet: the lines a register-map file of the model is made  *)
(* of.                                                                     *)
(***************************************************************************)
L_TIMER     == "TIMER 0x40007000 EN rw [0:0] 0x1"
L_CNT       == "    CNT rw [15:1] 0x0"
L_CTRL      == "ctrl 0x40007010 A [15:8] 0x01"
L_B         == "B [7:0] 0x02"
L_STAT      == "STAT 0x40006ffc S rw [3:2] 0x3"
L_BIG       == "BIG 0x140007008 W [4:4] 0x1"
L_IRQ       == "IRQ [3] 0x1"
L_BARE      == "K ro 5 0x1"
L_BLANK     == "  "
L_TWO       == "EN rw"
L_TWOHEX    == "EN 0x1"
L_BADRESET  == "F [6:6] zz"
L_BADADDR   == "BAD 0xZZ F [0:0] 0x1"
L_REGBADRST == "DMA 0x40007020 F [0:0] 0x"
L_SHORTREG  == "GPIO 0x40007030 F"
L_UPPER     == "UART 0X40007040 F [1:1] 0x1"

Lines ==
    {L_TIMER, L_CNT, L_CTRL, L_B, L_STAT, L_BIG, L_IRQ, L_BARE, L_BLANK,
     L_TWO, L_TWOHEX, L_BADRESET, L_BADADDR, L_REGBADRST, L_SHORTREG, L_UPPER}

(***************************************************************************)
(* State.                                                                  *)
(*   input   the lines of the file read so far (line_num = its length)     *)
(*   pc      "parsing" while the loop over the file runs, "eof" after it   *)
(*   cpp     the locals of cpp_generator.parse_reg_map_file and what the   *)
(*           program printed                                               *)
(*   golden  the locals of golden_h_generator.parse_reg_map_file and what  *)
(*           the program printed                                           *)
(*   origin  history: for each parser, the number of the line that set the *)
(*           open register's name and offset (0 before the first), and for *)
(*           every appended register the number of the line that set its   *)
(*           name and offset                                               *)
(*   cpp_run, golden_run   the outcome of each program's main(): not yet   *)
(*           run, or the exit status with the text written to the file     *)
(***************************************************************************)
VARIABLES input, pc, cpp, golden, origin, cpp_run, golden_run

vars == <<input, pc, cpp, golden, origin, cpp_run, golden_run>>

MASK == Num(1048575, 0)   \* 0xFFFFF000

Truthy(name) == name # None /\ name # ""

RECURSIVE lstrip(_)
lstrip(s) == IF s # "" /\ IsSpace(Ch(s, 1)) THEN lstrip(Tail(s)) ELSE s

RECURSIVE rstrip(_)
rstrip(s) ==
    IF s # "" /\ IsSpace(Ch(s, Len(s))) THEN rstrip(SubSeq(s, 1, Len(s) - 1)) ELSE s

\* str.strip()
strip(s) == rstrip(lstrip(s))

\* one more line on the program's standard output
Say(st, line_num, what) ==
    [st EXCEPT !.stdout = Append(@, [line_num |-> line_num, what |-> what])]

(***************************************************************************)
(* Pieces of the loop body of parse_reg_map_file that are the same text in *)
(* both generators.                                                        *)
(***************************************************************************)
\* is_new_register = len(parts) > 1 and parts[1].startswith('0x')
is_new_register(parts) == Len(parts) > 1 /\ startswith(parts[2], "0x")

\* variant: the first address is stored without masking
resolve_base_address_unmasked(base_address, address) ==
    IF base_address = NoneNum THEN address ELSE base_address

\* variant: the base address is recomputed on every register line
resolve_base_address_every_line(base_address, address) == And(address, MASK)

\* if base_address is None: base_address = address & 0xFFFFF000
resolve_base_address(base_address, address) ==
    IF base_address = NoneNum THEN And(address, MASK) ELSE base_address

\* variant: the operands of the subtraction swapped
register_offset_swapped(address, base_address) == Sub(base_address, address)

\* current_reg_offset = address - base_address
register_offset(address, base_address) == Sub(address, base_address)

\* variant: the register is inserted at the front
append_register_front(registers, reg) == <<reg>> \o registers

\* registers.append(...)
append_register(registers, reg) == Append(registers, reg)

\* variant: the field replaces the fields collected so far
append_field_replacing(current_fields, field_name, position, reset_value) ==
    <<Field(field_name, position, reset_value)>>

\* current_fields.append(Field(field_name, position, reset_value))
append_field(current_fields, field_name, position, reset_value) ==
    Append(current_fields, Field(field_name, position, reset_value))

(***************************************************************************)
(* cpp_generator.parse_reg_map_file: one iteration of the loop over the    *)
(* lines of the file.                                                      *)
(***************************************************************************)
\* if current_reg_name and current_fields: ... registers.append(...)
Cpp_close_register(st) ==
    IF Truthy(st.current_reg_name) /\ st.current_fields # <<>>
    THEN [st EXCEPT !.registers =
            append_register(@, Register(st.current_reg_name, st.current_reg_offset,
                                        Cpp_calculate_reset_value(st.current_fields)))]
    ELSE st

\* the branch "if is_new_register:"
Cpp_new_register_line(st, parts, line_num) ==
    LET s1 == [Cpp_close_register(st) EXCEPT !.current_fields = <<>>]
    IN  IF Len(parts) < 5
        THEN Say([s1 EXCEPT !.current_reg_name = None], line_num, "malformed register line")
        ELSE LET address == int16(parts[2])
                 position == parts[Len(parts) - 1]
                 reset    == int16(parts[Len(parts)])
             IN  IF ~address.ok
                 THEN Say(s1, line_num, "could not parse line")
                 ELSE LET base == resolve_base_address(s1.base_address, address.val)
                          s2 == [s1 EXCEPT !.base_address = base,
                                           !.current_reg_name = upper(parts[1]),
                                           !.current_reg_offset =
                                               register_offset(address.val, base)]
                      IN  IF ~reset.ok
                          THEN Say(s2, line_num, "could not parse line")
                          ELSE [s2 EXCEPT !.current_fields =
                                  append_field(@, parts[3], position, AsInt(reset.val))]

\* variant: a field line is taken although no register is open
Cpp_field_line_orphan_kept(st, parts, line_num) ==
    IF Len(parts) < 3
    THEN Say(st, line_num, "malformed field line")
    ELSE LET position == parts[Len(parts) - 1]
             reset    == int16(parts[Len(parts)])
         IN  IF ~reset.ok
             THEN Say(st, line_num, "could not parse line")
             ELSE [st EXCEPT !.current_fields =
                     append_field(@, parts[1], position, AsInt(reset.val))]

\* the branch "else:" (field line)
Cpp_field_line(st, parts, line_num) ==
    IF ~Truthy(st.current_reg_name)
    THEN Say(st, line_num, "field line with no active register")
    ELSE IF Len(parts) < 3
    THEN Say(st, line_num, "malformed field line")
    ELSE LET position == parts[Len(parts) - 1]
             reset    == int16(parts[Len(parts)])
         IN  IF ~reset.ok
             THEN Say(st, line_num, "could not parse line")
             ELSE [st EXCEPT !.current_fields =
                     append_field(@, parts[1], position, AsInt(reset.val))]

Cpp_loop_body(st, raw_line, line_num) ==
    LET line  == strip(raw_line)
        parts == split(line)
    IN  IF line = "" THEN st
        ELSE IF is_new_register(parts)
             THEN Cpp_new_register_line(st, parts, line_num)
             ELSE Cpp_field_line(st, parts, line_num)

(***************************************************************************)
(* golden_h_generator.parse_reg_map_file: one iteration of the loop.  It   *)
(* prints nothing and keeps the register's name as written.                *)
(***************************************************************************)
Golden_close_register(st) ==
    IF Truthy(st.current_reg_name) /\ st.current_fields # <<>>
    THEN [st EXCEPT !.registers =
            append_register(@, Register(st.current_reg_raw_name, st.current_reg_offset,
                                        Golden_calculate_reset_value(st.current_fields)))]
    ELSE st

Golden_new_register_line(st, parts) ==
    LET s1 == [Golden_close_register(st) EXCEPT !.current_fields = <<>>]
    IN  IF Len(parts) < 5
        THEN [s1 EXCEPT !.current_reg_name = None]
        ELSE LET address == int16(parts[2])
                 position == parts[Len(parts) - 1]
                 reset    == int16(parts[Len(parts)])
             IN  IF ~address.ok
                 THEN s1
                 ELSE LET base == resolve_base_address(s1.base_address, address.val)
                          s2 == [s1 EXCEPT !.base_address = base,
                                           !.current_reg_raw_name = parts[1],
                                           !.current_reg_name = upper(parts[1]),
                                           !.current_reg_offset =
                                               register_offset(address.val, base)]
                      IN  IF ~reset.ok
                          THEN s2
                          ELSE [s2 EXCEPT !.current_fields =
                                  append_field(@, parts[3], position, AsInt(reset.val))]

Golden_field_line(st, parts) ==
    IF ~Truthy(st.current_reg_name)
    THEN st
    ELSE IF Len(parts) < 3
    THEN st
    ELSE LET position == parts[Len(parts) - 1]
             reset    == int16(parts[Len(parts)])
         IN  IF ~reset.ok
             THEN st
             ELSE [st EXCEPT !.current_fields =
                     append_field(@, parts[1], position, AsInt(reset.val))]

Golden_loop_body(st, raw_line) ==
    LET line  == strip(raw_line)
        parts == split(line)
    IN  IF line = "" THEN st
        ELSE IF is_new_register(parts)
             THEN Golden_new_register_line(st, parts)
             ELSE Golden_field_line(st, parts)

\* the line reaches "current_reg_name = reg_name.upper()" and the offset
\* assignment next to it (the same condition in both generators)
SetsNameAndOffset(raw_line) ==
    LET parts == split(strip(raw_line))
    IN  is_new_register(parts) /\ Len(parts) >= 5 /\ int16(parts[2]).ok

\* history of one parser across a step from st to st2
Track(o, st, st2, opens, line_num) ==
    [current |-> IF opens THEN line_num ELSE o.current,
     closed  |-> IF Len(st2.registers) > Len(st.registers)
                 THEN Append(o.closed, o.current) ELSE o.closed]

(***************************************************************************)
(* cpp_generator.generate_cpp_code and main.  The generated text is kept   *)
(* as its variable parts, in the order the template writes them:           *)
(*   unit, base      the header comment                                    *)
(*   cnt_reg_end     the value of CNT_REG_END                              *)
(*   constants       one [name, value] per "constexpr size_t NAME = ..."   *)
(*   reset_body      one [name, value] per "reg[NAME / REG_BYTE_WIDTH] ="  *)
(***************************************************************************)
REG_BYTE_WIDTH == 2

ClassName == "RegMap"

RECURSIVE MaxOffset(_, _)
\* max(r.offset for r in registers[i..])
MaxOffset(registers, i) ==
    IF i = Len(registers) THEN registers[i].offset
    ELSE LET m == MaxOffset(registers, i + 1)
         IN  IF Less(registers[i].offset, m) THEN m ELSE registers[i].offset

NoText == [unit |-> "", base |-> "", cnt_reg_end |-> "",
           constants |-> <<>>, reset_body |-> <<>>]

\* hex(base_address) raises TypeError when base_address is None
generate_cpp_code(registers, base_address, class_name) ==
    LET max_offset == IF registers # <<>> THEN MaxOffset(registers, 1) ELSE Zero
    IN  IF base_address = NoneNum
        THEN [raised |-> TRUE, text |-> NoText]
        ELSE [raised |-> FALSE,
              text |-> [unit |-> upper(class_name),
                        base |-> "0x" \o HexOfNum(base_address),
                        cnt_reg_end |-> "0x" \o HexOfNum(max_offset),
                        constants |->
                            [i \in 1..Len(registers) |->
                                [name |-> registers[i].name,
                                 value |-> "0x" \o FormatHex(HexOfNum(registers[i].offset), 3)]],
                        reset_body |->
                            [i \in 1..Len(registers) |->
                                [name |-> registers[i].name,
                                 value |-> "0x" \o HexOfInt(registers[i].reset_value)]]]]

\* main(): the try block around parse_reg_map_file and generate_cpp_code
Cpp_main(registers, base_address) ==
    LET code == generate_cpp_code(registers, base_address, ClassName)
    IN  IF code.raised
        THEN [status |-> "exit 1", file |-> NoText]
        ELSE [status |-> "exit 0", file |-> code.text]

(***************************************************************************)
(* golden_h_generator.generate_golden_h_code and main.  The generated text *)
(* is the explanatory comment, or one [offset, expected_value, name] per   *)
(* line of the golden_regs initializer.                                    *)
(***************************************************************************)
NoRegistersComment == "// No registers found or parsed."

generate_golden_h_code(registers) ==
    IF registers = <<>>
    THEN [comment |-> NoRegistersComment, records |-> <<>>]
    ELSE [comment |-> "",
          records |->
              [i \in 1..Len(registers) |->
                  [offset |-> "0x" \o FormatHex(HexOfNum(registers[i].offset), 4),
                   expected_value |->
                       "0x" \o FormatHex(HexOfInt(registers[i].reset_value), 4),
                   name |-> registers[i].name]]]

Golden_main(registers) ==
    [status |-> "exit 0", file |-> generate_golden_h_code(registers)]

(***************************************************************************)
(* Initial state: both programs started on the same file, nothing read.    *)
(***************************************************************************)
NotRunCpp == [status |-> "not run", file |-> NoText]

NotRunGolden == [status |-> "not run", file |-> [comment |-> "", records |-> <<>>]]

Init ==
    /\ input = <<>>
    /\ pc = "parsing"
    /\ cpp = [registers |-> <<>>, base_address |-> NoneNum, current_fields |-> <<>>,
              current_reg_name |-> None, current_reg_offset |-> NoneNum,
              stdout |-> <<>>]
    /\ golden = [registers |-> <<>>, base_address |-> NoneNum, current_fields |-> <<>>,
                 current_reg_name |-> None, current_reg_offset |-> NoneNum,
                 current_reg_raw_name |-> None, stdout |-> <<>>]
    /\ origin = [cpp |-> [current |-> 0, closed |-> <<>>],
                 golden |-> [current |-> 0, closed |-> <<>>]]
    /\ cpp_run = NotRunCpp
    /\ golden_run = NotRunGolden

(***************************************************************************)
(* Both parsers read the next line of the file.                            *)
(***************************************************************************)
ReadLine ==
    /\ pc = "parsing"
    /\ Len(input) < MaxLines
    /\ \E raw_line \in Lines :
         LET line_num == Len(input) + 1
             c2 == Cpp_loop_body(cpp, raw_line, line_num)
             g2 == Golden_loop_body(golden, raw_line)
         IN  /\ input' = Append(input, raw_line)
             /\ cpp' = c2
             /\ golden' = g2
             /\ origin' = [cpp |-> Track(origin.cpp, cpp, c2,
                                         SetsNameAndOffset(raw_line), line_num),
                           golden |-> Track(origin.golden, golden, g2,
                                            SetsNameAndOffset(raw_line), line_num)]
    /\ UNCHANGED <<pc, cpp_run, golden_run>>

(***************************************************************************)
(* The file ends: both parsers leave the loop and store the last register. *)
(***************************************************************************)
\* variant: the register still open when the file ends is forgotten
Cpp_store_last_register_forgotten(st) == st

\* cpp_generator, after the loop: if current_reg_name and current_fields: ...
Cpp_store_last_register(st) ==
    IF Truthy(st.current_reg_name) /\ st.current_fields # <<>>
    THEN [st EXCEPT !.registers =
            append_register(@, Register(st.current_reg_name, st.current_reg_offset,
                                        Cpp_calculate_reset_value(st.current_fields)))]
    ELSE st

\* golden_h_generator, after the loop
Golden_store_last_register(st) ==
    IF Truthy(st.current_reg_name) /\ st.current_fields # <<>>
    THEN [st EXCEPT !.registers =
            append_register(@, Register(st.current_reg_raw_name, st.current_reg_offset,
                                        Golden_calculate_reset_value(st.current_fields)))]
    ELSE st

EndOfFile ==
    /\ pc = "parsing"
    /\ pc' = "eof"
    /\ cpp' = Cpp_store_last_register(cpp)
    /\ golden' = Golden_store_last_register(golden)
    /\ origin' = [cpp |-> Track(origin.cpp, cpp, Cpp_store_last_register(cpp), FALSE, 0),
                  golden |-> Track(origin.golden, golden,
                                   Golden_store_last_register(golden), FALSE, 0)]
    /\ UNCHANGED <<input, cpp_run, golden_run>>

(***************************************************************************)
(* main() of each program renders what its parser returned.                *)
(***************************************************************************)
RunCppMain ==
    /\ pc = "eof"
    /\ cpp_run.status = "not run"
    /\ cpp_run' = Cpp_main(cpp.registers, cpp.base_address)
    /\ cpp' = Say(cpp, 0, IF cpp_run'.status = "exit 0"
                          THEN "Successfully generated" ELSE "An error occurred")
    /\ UNCHANGED <<input, pc, golden, origin, golden_run>>

RunGoldenMain ==
    /\ pc = "eof"
    /\ golden_run.status = "not run"
    /\ golden_run' = Golden_main(golden.registers)
    /\ golden' = Say(golden, 0, "Successfully generated")
    /\ UNCHANGED <<input, pc, cpp, origin, cpp_run>>

Next == ReadLine \/ EndOfFile \/ RunCppMain \/ RunGoldenMain

Spec == Init /\ [][Next]_vars

(***************************************************************************)
(* Vocabulary of the properties: what the design document calls a line's   *)
(* shape, a well-formed line and the low bit of a position token.          *)
(***************************************************************************)
\* the tokens of every line of the input alphabet
LineTokens == [raw_line \in Lines |-> split(strip(raw_line))]

Tokens(raw_line) == LineTokens[raw_line]

IsBlank(raw_line) == strip(raw_line) = ""

HexPrefixed(token) == startswith(token, "0x") \/ startswith(token, "0X")

\* NewRegister shape: at least two tokens, the second one hex-prefixed
NewRegisterShaped(raw_line) ==
    Len(Tokens(raw_line)) >= 2 /\ HexPrefixed(Tokens(raw_line)[2])

ContinuationShaped(raw_line) ==
    ~IsBlank(raw_line) /\ ~NewRegisterShaped(raw_line)

LastToken(raw_line) == Tokens(raw_line)[Len(Tokens(raw_line))]

PositionToken(raw_line) == Tokens(raw_line)[Len(Tokens(raw_line)) - 1]

\* the whole token is [hi:lo]
IsRangeToken(token) ==
    /\ RangeAt(token, 1)
    /\ DigitRunEnd(token, DigitRunEnd(token, 2) + 2) + 1 = Len(token)

\* the whole token is [n]
IsSingleBitToken(token) ==
    SingleAt(token, 1) /\ DigitRunEnd(token, 2) + 1 = Len(token)

\* [hi:lo] yields lo, [n] yields n, anything else yields 0
LowBit(token) ==
    IF IsRangeToken(token)
    THEN DecVal(token, DigitRunEnd(token, 2) + 2, Len(token) - 1)
    ELSE IF IsSingleBitToken(token)
    THEN DecVal(token, 2, Len(token) - 1)
    ELSE 0

\* too few tokens, or a numeric token that is not a hex literal
MalformedLine(raw_line) ==
    \/ /\ NewRegisterShaped(raw_line)
       /\ \/ Len(Tokens(raw_line)) < 5
          \/ ~int16(Tokens(raw_line)[2]).ok
          \/ ~int16(LastToken(raw_line)).ok
    \/ /\ ContinuationShaped(raw_line)
       /\ \/ Len(Tokens(raw_line)) < 3
          \/ ~int16(LastToken(raw_line)).ok

\* a record line as the input format writes it: 0x-prefixed literals and a
\* bracketed position
WellFormedLine(raw_line) ==
    /\ ~IsBlank(raw_line)
    /\ ~MalformedLine(raw_line)
    /\ startswith(LastToken(raw_line), "0x")
    /\ NewRegisterShaped(raw_line) => startswith(Tokens(raw_line)[2], "0x")
    /\ IsRangeToken(PositionToken(raw_line)) \/ IsSingleBitToken(PositionToken(raw_line))

\* only blank and well-formed lines, the first record line opening a register
WellFormedInput(lines) ==
    /\ \A i \in 1..Len(lines) : IsBlank(lines[i]) \/ WellFormedLine(lines[i])
    /\ \A i \in 1..Len(lines) :
         ContinuationShaped(lines[i]) =>
            \E j \in 1..(i - 1) : NewRegisterShaped(lines[j])

\* the field a well-formed line declares, already shifted to its low bit
ShiftedField(raw_line) ==
    ShiftLeft(AsInt(int16(LastToken(raw_line)).val), LowBit(PositionToken(raw_line)))

RECURSIVE ExpectedResets(_, _, _)
\* the composite reset value of every record of a well-formed input: the OR
\* of the shifted fields from its NewRegister line up to the next one
ExpectedResets(lines, i, acc) ==
    IF i > Len(lines) THEN acc
    ELSE IF IsBlank(lines[i]) THEN ExpectedResets(lines, i + 1, acc)
    ELSE IF NewRegisterShaped(lines[i])
    THEN ExpectedResets(lines, i + 1, Append(acc, ShiftedField(lines[i])))
    ELSE ExpectedResets(lines, i + 1,
            [acc EXCEPT ![Len(acc)] = BitOr(@, ShiftedField(lines[i]))])

ResetValues(registers) == [i \in 1..Len(registers) |-> registers[i].reset_value]

\* the locals of a parser, without what it printed
ParserState(st) ==
    [registers |-> st.registers, base_address |-> st.base_address,
     current_fields |-> st.current_fields,
     current_reg_name |-> st.current_reg_name,
     current_reg_offset |-> st.current_reg_offset]

\* this step reads a line
Reads == pc = "parsing" /\ Len(input') = Len(input) + 1

LineRead == input'[Len(input')]

(***************************************************************************)
(* C1: for an input of well-formed lines only, every register of the model *)
(* has as reset value the OR, over the fields of its record, of the        *)
(* field's reset value shifted left by the low bit of its position.        *)
(***************************************************************************)
C1_CompositeReset ==
    (pc = "eof" /\ WellFormedInput(input)) =>
        /\ ResetValues(cpp.registers) = ExpectedResets(input, 1, <<>>)
        /\ ResetValues(golden.registers) = ExpectedResets(input, 1, <<>>)

(***************************************************************************)
(* C2: in both generators parse_bit_position yields lo for [hi:lo], n for  *)
(* [n] and 0 for any other token, so that a field at [n] with reset value  *)
(* v contributes v << n to the composite reset value.                      *)
(***************************************************************************)
C2_LowBitOfPosition ==
    /\ \A i \in 1..Len(input) :
         Len(Tokens(input[i])) >= 2 =>
            /\ Cpp_parse_bit_position(PositionToken(input[i]))
                  = LowBit(PositionToken(input[i]))
            /\ Golden_parse_bit_position(PositionToken(input[i]))
                  = LowBit(PositionToken(input[i]))
    /\ \A i \in 1..Len(cpp.current_fields) :
         LET f == cpp.current_fields[i]
             v == ShiftLeft(f.reset_value, LowBit(f.position))
         IN  BitAnd(Cpp_calculate_reset_value(cpp.current_fields), v) = v
    /\ \A i \in 1..Len(golden.current_fields) :
         LET f == golden.current_fields[i]
             v == ShiftLeft(f.reset_value, LowBit(f.position))
         IN  BitAnd(Golden_calculate_reset_value(golden.current_fields), v) = v

(***************************************************************************)
(* C3: a line that fails tokenization or numeric parsing, of either shape, *)
(* is discarded without changing the parser state: registers, base         *)
(* address and the open register's name, offset and fields stay the same.  *)
(***************************************************************************)
C3_MalformedLineDiscarded ==
    [][(Reads /\ MalformedLine(LineRead)) =>
          /\ ParserState(cpp') = ParserState(cpp)
          /\ ParserState(golden') = ParserState(golden)]_vars

(***************************************************************************)
(* C4: a line of exactly two tokens read while a register is open with     *)
(* fields is skipped with a diagnostic and leaves the register open with   *)
(* the same name, offset and fields, also when its second token is the     *)
(* 0x-prefixed reset value.                                                *)
(***************************************************************************)
C4_TwoTokenLineSkipped ==
    [][(/\ Reads
        /\ Len(Tokens(LineRead)) = 2
        /\ Truthy(cpp.current_reg_name)
        /\ cpp.current_fields # <<>>) =>
          /\ cpp'.current_reg_name = cpp.current_reg_name
          /\ cpp'.current_reg_offset = cpp.current_reg_offset
          /\ cpp'.current_fields = cpp.current_fields
          /\ cpp'.registers = cpp.registers
          /\ Len(cpp'.stdout) = Len(cpp.stdout) + 1]_vars

(***************************************************************************)
(* C5: the base address is assigned at most once per parse, from the       *)
(* address of the first register line whose address parses, masked with    *)
(* 0xFFFFF000; no later line changes it, whatever its address.             *)
(***************************************************************************)
BaseAssignedOnce(before, after) ==
    /\ before # NoneNum => after = before
    /\ (before = NoneNum /\ Reads /\ SetsNameAndOffset(LineRead)) =>
           after = And(int16(Tokens(LineRead)[2]).val, MASK)
    /\ (before = NoneNum /\ ~(Reads /\ SetsNameAndOffset(LineRead))) =>
           after = NoneNum

C5_BaseAddressAssignedOnce ==
    [][/\ BaseAssignedOnce(cpp.base_address, cpp'.base_address)
       /\ BaseAssignedOnce(golden.base_address, golden'.base_address)]_vars

\* a lower and then a higher address followed the first one
C5_Witness ==
    /\ input = <<L_TIMER, L_STAT, L_CTRL>>
    /\ cpp.base_address = Num(262151, 0)
    /\ golden.base_address = Num(262151, 0)
    /\ Len(cpp.registers) = 2

(***************************************************************************)
(* C6: every register of the model has as offset the address on its own    *)
(* NewRegister line minus the base address, and the offset is not negative *)
(* when that address is at or above the page of the first register         *)
(* address (that address with its low 12 bits cleared).                    *)
(***************************************************************************)
AddressOn(raw_line) == int16(Tokens(raw_line)[2]).val

Page(address) == Num(address.hi, 0)

\* the lines of the alphabet on which an address is parsed
AddressLines == {raw_line \in Lines : SetsNameAndOffset(raw_line)}

FirstAddress ==
    AddressOn(input[Min({i \in 1..Len(input) : input[i] \in AddressLines})])

OffsetsFromOwnLine(st, o) ==
    /\ Len(o.closed) = Len(st.registers)
    /\ st.registers # <<>> =>
         LET first_page == Page(FirstAddress)
         IN  \A i \in 1..Len(st.registers) :
                LET address == AddressOn(input[o.closed[i]])
                IN  /\ st.registers[i].offset = Sub(address, st.base_address)
                    /\ ~Less(address, first_page) =>
                           ~IsNegative(st.registers[i].offset)

C6_OffsetIsAddressMinusBase ==
    /\ OffsetsFromOwnLine(cpp, origin.cpp)
    /\ OffsetsFromOwnLine(golden, origin.golden)

\* one register below the base address (offset -4), two at or above it
C6_Witness ==
    /\ pc = "eof"
    /\ input = <<L_TIMER, L_STAT, L_CTRL>>
    /\ Len(cpp.registers) = 3
    /\ cpp.registers[1].offset = Zero
    /\ cpp.registers[2].offset = Num(0 - 1, 4092)
    /\ cpp.registers[3].offset = Num(0, 16)
    /\ golden.registers[3].offset = Num(0, 16)

(***************************************************************************)
(* C7: the registers of the model, and the offset constants, reset         *)
(* assignments and golden records rendered from it, are in the order of    *)
(* their NewRegister lines in the input, whatever their offsets.           *)
(***************************************************************************)
Names(rows) == [i \in 1..Len(rows) |-> rows[i].name]

InDeclarationOrder(st, o, upper_case) ==
    /\ Len(o.closed) = Len(st.registers)
    /\ \A i \in 1..Len(st.registers) :
         /\ st.registers[i].name =
               IF upper_case THEN upper(Tokens(input[o.closed[i]])[1])
                             ELSE Tokens(input[o.closed[i]])[1]
         /\ st.registers[i].offset =
               Sub(AddressOn(input[o.closed[i]]), st.base_address)
    /\ \A i, j \in 1..Len(st.registers) :
         o.closed[i] < o.closed[j] => i < j

C7_DeclarationOrder ==
    /\ InDeclarationOrder(cpp, origin.cpp, TRUE)
    /\ InDeclarationOrder(golden, origin.golden, FALSE)
    /\ cpp_run.status = "exit 0" =>
         /\ Names(cpp_run.file.constants) = Names(cpp.registers)
         /\ Names(cpp_run.file.reset_body) = Names(cpp.registers)
    /\ (golden_run.status = "exit 0" /\ golden.registers # <<>>) =>
         Names(golden_run.file.records) = Names(golden.registers)

\* the register at the higher address is declared first and rendered first
C7_Witness ==
    /\ input = <<L_CTRL, L_TIMER>>
    /\ cpp_run.status = "exit 0"
    /\ golden_run.status = "exit 0"
    /\ Names(cpp_run.file.constants) = <<"CTRL", "TIMER">>
    /\ cpp_run.file.constants[1].value = "0x010"
    /\ cpp_run.file.constants[2].value = "0x000"
    /\ Names(golden_run.file.records) = <<"ctrl", "TIMER">>

(***************************************************************************)
(* C8: a line is classified as NewRegister exactly when it has at least    *)
(* two tokens and the second begins with 0x or 0X; every other non-blank   *)
(* line is a ContinuationField.                                            *)
(***************************************************************************)
C8_Classification ==
    \A i \in 1..Len(input) :
        ~IsBlank(input[i]) =>
            (is_new_register(Tokens(input[i])) <=> NewRegisterShaped(input[i]))

(***************************************************************************)
(* C9: when parsing yields no register, both emitters return a minimal     *)
(* text: cpp_generator does not end in its error exit, and the golden      *)
(* header is the single explanatory comment.                               *)
(***************************************************************************)
C9_EmptyResultRendered ==
    /\ (cpp_run.status # "not run" /\ cpp.registers = <<>>) =>
           cpp_run.status = "exit 0"
    /\ (golden_run.status # "not run" /\ golden.registers = <<>>) =>
           /\ golden_run.status = "exit 0"
           /\ golden_run.file = [comment |-> NoRegistersComment, records |-> <<>>]

(***************************************************************************)
(* C10: a well-formed continuation line (second token not hex-prefixed, at *)
(* least 3 tokens, hex reset value) read while a register is open appends  *)
(* exactly one field to that register and opens no register; the TIMER     *)
(* line followed by the CNT line yields the single register TIMER, offset  *)
(* 0, reset value 1, base address 0x40007000.                              *)
(***************************************************************************)
WellFormedContinuation(raw_line) ==
    /\ ContinuationShaped(raw_line)
    /\ Len(Tokens(raw_line)) >= 3
    /\ int16(LastToken(raw_line)).ok

FieldOn(raw_line) ==
    Field(Tokens(raw_line)[1], PositionToken(raw_line),
          AsInt(int16(LastToken(raw_line)).val))

OneFieldAppended(st, st2) ==
    (Reads /\ WellFormedContinuation(LineRead) /\ Truthy(st.current_reg_name)) =>
        /\ st2.current_fields = Append(st.current_fields, FieldOn(LineRead))
        /\ st2.current_reg_name = st.current_reg_name
        /\ st2.current_reg_offset = st.current_reg_offset
        /\ st2.registers = st.registers
        /\ st2.base_address = st.base_address

TimerScenario(st) ==
    /\ Len(st.registers) = 1
    /\ st.registers[1] = Register("TIMER", Zero, 1)
    /\ st.base_address = Num(262151, 0)

C10_ContinuationAppendsOneField ==
    [][/\ OneFieldAppended(cpp, cpp')
       /\ OneFieldAppended(golden, golden')
       /\ (input' = <<L_TIMER, L_CNT>> /\ pc' = "eof") =>
              (TimerScenario(cpp') /\ TimerScenario(golden'))]_vars

C10_Witness ==
    /\ pc = "eof"
    /\ input = <<L_TIMER, L_CNT>>
    /\ cpp.current_fields =
          <<Field("EN", "[0:0]", 1), Field("CNT", "[15:1]", 0)>>
    /\ golden.current_fields = cpp.current_fields
    /\ TimerScenario(cpp)
    /\ TimerScenario(golden)

(***************************************************************************)
(* C11: at end of input a register that is still open with at least one    *)
(* field is appended to the model exactly once, with the composite reset   *)
(* value a following NewRegister line would have stored; a register        *)
(* without fields, or no open register, adds nothing.                      *)
(***************************************************************************)
\* the file ends in this step
Ends == pc = "parsing" /\ pc' = "eof"

Open(st) == Truthy(st.current_reg_name) /\ st.current_fields # <<>>

C11_LastRegisterStored ==
    [][/\ (Ends /\ Open(cpp)) =>
             /\ Len(cpp'.registers) = Len(cpp.registers) + 1
             /\ cpp'.registers = Cpp_loop_body(cpp, L_CTRL, Len(input) + 1).registers
             /\ cpp'.registers[Len(cpp'.registers)].name = cpp.current_reg_name
             /\ cpp'.registers[Len(cpp'.registers)].offset = cpp.current_reg_offset
       /\ (Ends /\ ~Open(cpp)) => cpp'.registers = cpp.registers
       /\ (Ends /\ Open(golden)) =>
             /\ Len(golden'.registers) = Len(golden.registers) + 1
             /\ golden'.registers =
                   Golden_loop_body(golden, L_CTRL).registers
             /\ golden'.registers[Len(golden'.registers)].name
                   = golden.current_reg_raw_name
             /\ golden'.registers[Len(golden'.registers)].offset
                   = golden.current_reg_offset
       /\ (Ends /\ ~Open(golden)) => golden'.registers = golden.registers
       /\ pc = "eof" =>
             (cpp'.registers = cpp.registers /\ golden'.registers = golden.registers)]_vars

\* the file ends right after the fields [15:8] = 0x01 and [7:0] = 0x02
C11_Witness ==
    /\ pc = "eof"
    /\ input = <<L_CTRL, L_B>>
    /\ cpp.registers = <<Register("CTRL", Num(0, 16), 258)>>
    /\ golden.registers = <<Register("ctrl", Num(0, 16), 258)>>

(***************************************************************************)
(* C12: a position token that is neither [hi:lo] nor [n] is taken as a     *)
(* bare decimal number: a field at the bare number k with reset value v    *)
(* contributes v << k; the shift is 0 only when the token is not a decimal *)
(* number either.                                                          *)
(***************************************************************************)
IsDecimalToken(token) ==
    token # "" /\ DigitRunEnd(token, 1) = Len(token)

\* the low bit with the fallback to a bare decimal number
LowBitWithFallback(token) ==
    IF IsRangeToken(token) \/ IsSingleBitToken(token) THEN LowBit(token)
    ELSE IF IsDecimalToken(token) THEN DecVal(token, 1, Len(token))
    ELSE 0

C12_BareDecimalPosition ==
    /\ \A i \in 1..Len(cpp.current_fields) :
         LET f == cpp.current_fields[i]
         IN  (~IsRangeToken(f.position) /\ ~IsSingleBitToken(f.position)) =>
                /\ Cpp_parse_bit_position(f.position) = LowBitWithFallback(f.position)
                /\ Cpp_calculate_reset_value(<<f>>)
                      = ShiftLeft(f.reset_value, LowBitWithFallback(f.position))
    /\ \A i \in 1..Len(golden.current_fields) :
         LET f == golden.current_fields[i]
         IN  (~IsRangeToken(f.position) /\ ~IsSingleBitToken(f.position)) =>
                /\ Golden_parse_bit_position(f.position) = LowBitWithFallback(f.position)
                /\ Golden_calculate_reset_value(<<f>>)
                      = ShiftLeft(f.reset_value, LowBitWithFallback(f.position))

(***************************************************************************)
(* C13: a continuation-shaped line read while no register is open is       *)
(* discarded and is not fatal: the model, the field accumulator and the    *)
(* base address are unchanged and parsing goes on with the next line.      *)
(***************************************************************************)
OrphanDiscarded(st, st2) ==
    (Reads /\ ContinuationShaped(LineRead) /\ ~Truthy(st.current_reg_name)) =>
        /\ ParserState(st2) = ParserState(st)
        /\ pc' = "parsing"
        /\ cpp_run' = NotRunCpp
        /\ golden_run' = NotRunGolden

C13_OrphanContinuationDiscarded ==
    [][OrphanDiscarded(cpp, cpp') /\ OrphanDiscarded(golden, golden')]_vars

\* an orphan field line, then a register that is parsed as usual
C13_Witness ==
    /\ pc = "eof"
    /\ input = <<L_B, L_TIMER, L_CNT>>
    /\ cpp.registers = <<Register("TIMER", Zero, 1)>>
    /\ golden.registers = <<Register("TIMER", Zero, 1)>>
    /\ cpp.stdout = <<[line_num |-> 1, what |-> "field line with no active register"]>>

(***************************************************************************)
(* C14: every non-blank line a parser discards (too few tokens, bad        *)
(* numeric literal, orphan continuation) produces a diagnostic that names  *)
(* its line number, in both generators.                                    *)
(***************************************************************************)
Discards(st) ==
    /\ Reads
    /\ \/ MalformedLine(LineRead)
       \/ ContinuationShaped(LineRead) /\ ~Truthy(st.current_reg_name)

Diagnosed(st, st2) ==
    /\ Len(st2.stdout) = Len(st.stdout) + 1
    /\ st2.stdout[Len(st2.stdout)].line_num = Len(input')

CppDiagnoses == Discards(cpp) => Diagnosed(cpp, cpp')

GoldenDiagnoses == Discards(golden) => Diagnosed(golden, golden')

C14_DiscardedLineDiagnosed ==
    [][CppDiagnoses /\ GoldenDiagnoses]_vars

(***************************************************************************)
(* C15: for every input the (offset, reset value) pairs golden_h_generator *)
(* parses and renders as golden records are, element by element and in the *)
(* same order, the pairs cpp_generator parses and renders as offset        *)
(* constants and reg[offset / 2] = reset assignments.                      *)
(***************************************************************************)
Pairs(registers) ==
    [i \in 1..Len(registers) |->
        [offset |-> registers[i].offset, reset_value |-> registers[i].reset_value]]

\* the rendered hexadecimal texts read back as numbers
GoldenRenderedPairs ==
    [i \in 1..Len(golden_run.file.records) |->
        [offset |-> int16(golden_run.file.records[i].offset),
         reset_value |-> int16(golden_run.file.records[i].expected_value)]]

CppRenderedPairs ==
    [i \in 1..Len(cpp_run.file.reset_body) |->
        [offset |-> int16(cpp_run.file.constants[i].value),
         reset_value |-> int16(cpp_run.file.reset_body[i].value)]]

C15_GoldenMatchesCpp ==
    /\ pc = "eof" => Pairs(golden.registers) = Pairs(cpp.registers)
    /\ (cpp_run.status # "not run" /\ golden_run.status # "not run") =>
           GoldenRenderedPairs = CppRenderedPairs

(***************************************************************************)
(* C16: after any sequence of lines the model holds one register per       *)
(* NewRegister line closed so far: no line has its name and offset         *)
(* appended twice, so fields read after a register was closed are never    *)
(* stored under that register again.                                       *)
(***************************************************************************)
OneRegisterPerLine(st, o) ==
    /\ Len(o.closed) = Len(st.registers)
    /\ \A i, j \in 1..Len(o.closed) : o.closed[i] = o.closed[j] => i = j

C16_OneRegisterPerLine ==
    /\ OneRegisterPerLine(cpp, origin.cpp)
    /\ OneRegisterPerLine(golden, origin.golden)

(***************************************************************************)
(* C17: in the generated C++ text every index written by reset(), offset / *)
(* REG_BYTE_WIDTH of each register, lies within the declared array:        *)
(* 0 <= offset / 2 <= CNT_REG_END / 2, CNT_REG_END being the highest       *)
(* offset.                                                                 *)
(***************************************************************************)
\* offset / REG_BYTE_WIDTH
RegIndex(offset) == Half(offset)

CntRegEnd == IF cpp.registers # <<>> THEN MaxOffset(cpp.registers, 1) ELSE Zero

IndexNotBelowArray ==
    \A i \in 1..Len(cpp.registers) :
        ~IsNegative(RegIndex(cpp.registers[i].offset))

IndexNotAboveArray ==
    \A i \in 1..Len(cpp.registers) :
        ~Less(RegIndex(CntRegEnd), RegIndex(cpp.registers[i].offset))

C17_IndexWithinArray ==
    cpp_run.status = "exit 0" =>
        /\ REG_BYTE_WIDTH = 2
        /\ cpp_run.file.cnt_reg_end = "0x" \o HexOfNum(CntRegEnd)
        /\ IndexNotBelowArray
        /\ IndexNotAboveArray

(***************************************************************************)
(* C18: the base address is the first register address with only its low   *)
(* 12 bits cleared, so that the first register's offset is the low 12 bits *)
(* of its address and lies in 0..4095.                                     *)
(***************************************************************************)
\* this step parses the first address
SetsBase(st) == Reads /\ st.base_address = NoneNum /\ SetsNameAndOffset(LineRead)

Low12Cleared(st2) ==
    /\ st2.base_address = Page(AddressOn(LineRead))
    /\ st2.current_reg_offset = Num(0, AddressOn(LineRead).lo)
    /\ st2.current_reg_offset.lo \in 0..(Limb - 1)

\* the address is below 2^32 (its page number is below 2^20)
BelowTwo32(address) == address.hi < Pow2(20)

\* as stated, for every first address, 2^32 and more included
C18_BaseClearsOnlyLow12Bits ==
    [][/\ SetsBase(cpp) => Low12Cleared(cpp')
       /\ SetsBase(golden) => Low12Cleared(golden')]_vars

\* what 0xFFFFF000 does: bits 12..31 are kept, bits 32 and above are cleared
MaskedTo32Bits(st2) ==
    /\ st2.base_address = Num(AddressOn(LineRead).hi % Pow2(20), 0)
    /\ st2.current_reg_offset = Sub(AddressOn(LineRead), st2.base_address)
    /\ BelowTwo32(AddressOn(LineRead)) => Low12Cleared(st2)
    /\ ~BelowTwo32(AddressOn(LineRead)) =>
          /\ ~Low12Cleared(st2)
          /\ ~BelowTwo32(st2.current_reg_offset)

(***************************************************************************)
(* C18 as amended: for a first register address below 2^32 the base        *)
(* address is that address with only its low 12 bits cleared and the first *)
(* offset is its low 12 bits, in 0..4095; for an address of 2^32 or more   *)
(* the mask 0xFFFFF000 clears bits 32 and above as well, and the first     *)
(* offset is 2^32 or more.                                                 *)
(***************************************************************************)
C18_BaseMaskedWithFFFFF000 ==
    [][/\ SetsBase(cpp) => MaskedTo32Bits(cpp')
       /\ SetsBase(golden) => MaskedTo32Bits(golden')]_vars

\* the first address 0x40007010: base 0x40007000, offset 0x010
C18_Witness ==
    /\ input = <<L_CTRL>>
    /\ cpp.base_address = Num(262151, 0)
    /\ cpp.current_reg_offset = Num(0, 16)
    /\ golden.base_address = Num(262151, 0)
    /\ golden.current_reg_offset = Num(0, 16)

====
